---- MODULE Spec2Model ----
(***************************************************************************)
(* Core OpenGL (CGL) context wrapper of surfman:                           *)
(* surfman/src/platform/macos/cgl/context.rs.                              *)
(*                                                                         *)
(* The model follows the Device operations on contexts: descriptor         *)
(* creation, context creation under CREATE_CONTEXT_MUTEX, adoption of the  *)
(* current native context, destruction, the framebuffer binding state      *)
(* machine, the thread-local current context and the Drop of a Context.    *)
(* Context descriptors (the native pixel formats, their reference counts   *)
(* and the attributes read back from them) have specifications of their    *)
(* own, SpecDescriptors and SpecAttributes.                                *)
(* Operations that touch process-wide state (the mutex, the native pixel   *)
(* format selection) are split at their native calls so that threads       *)
(* interleave there; operations on a Context, which is owned by one thread *)
(* and borrowed mutably, are single steps.                                 *)
(***************************************************************************)
EXTENDS Integers, Sequences, FiniteSets, TLC

(* ------------------------------ bounds -------------------------------- *)
\* Number of threads that use the library.
NumThreads == 2
\* Contexts (and native contexts) created over a run of Spec.
MaxContexts == 2
\* Contexts (and native contexts) created over a run of SpecLifecycle.
MaxLifecycleContexts == 3
\* Surfaces in the caller's hands at a time.
MaxSurfaces == 2
\* ContextDescriptor values in scope at a time.
MaxDescriptors == 3
\* Native pixel formats chosen over a run of SpecDescriptors.
MaxPixelFormats == 2
\* Native contexts created over a run of SpecDescriptors.
MaxDescriptorContexts == 2
\* Largest requested GL major and minor version.
MaxMajor == 5
MaxMinor == 2

Threads == 1..NumThreads
\* The holder of an unlocked mutex.
NoThread == NumThreads + 1

(* --------------------------- native handles --------------------------- *)
\* ptr::null_mut(): the null CGLContextObj.
NULL == 0
\* The native context some other library (e.g. Glutin) created.
ExternalHandle == NULL + 1

\* kCGLNoError, and one value standing for every other CGLError.
kCGLNoError == 0
kCGLBadError == kCGLNoError + 1
CGLErrors == {kCGLNoError, kCGLBadError}

VARIABLES
    pc,                 \* per thread: where it is inside a Device operation
    mutex_holder,       \* CREATE_CONTEXT_MUTEX: the thread holding the guard
    mutex_poisoned,     \* CREATE_CONTEXT_MUTEX: a holder panicked
    next_context_id,    \* the ContextID inside CREATE_CONTEXT_MUTEX
    contexts,           \* the Context values in scope, by order of construction
    built,              \* number of Context values constructed so far
    current,            \* per thread: CGLGetCurrentContext()
    cgl_alive,          \* native contexts created and not destroyed
    cgl_created,        \* number of CGLCreateContext successes
    cgl_destroys,       \* bag of CGLDestroyContext calls, per handle
    cgl_context,        \* per thread: local `cgl_context` of create_context
    ret,                \* the call that returned in the last step, if any
    pixel_formats,      \* native pixel format objects, by CGLPixelFormatObj
    descriptors,        \* the ContextDescriptor values in scope
    context_formats     \* per native context: what CGLGetPixelFormat returns

\* The state of the context descriptors, which the operations on contexts
\* modelled below leave alone.
descriptor_vars == <<pixel_formats, descriptors, context_formats>>

vars == <<pc, mutex_holder, mutex_poisoned, next_context_id, contexts, built,
          current, cgl_alive, cgl_created, cgl_destroys, cgl_context, ret,
          descriptor_vars>>

(* ----------------------------- Framebuffer ---------------------------- *)
\* crate::surface::Framebuffer<Surface>: None | External | Surface(s).
\* A Surface value as this file reads it: an identity and `context_id`, the
\* id of the context it was created for.
Surface(sid, id) == [sid |-> sid, context_id |-> id]
NoSurface == Surface(0, 0 - 1)

FramebufferNone == [tag |-> "None", surface |-> NoSurface]
FramebufferExternal == [tag |-> "External", surface |-> NoSurface]
FramebufferSurface(s) == [tag |-> "Surface", surface |-> s]

(* ---------------------------- NativeContext --------------------------- *)
OwnedCGLContext(h) == [kind |-> "Owned", cgl_context |-> h]
UnsafeCGLContextRef(h) == [kind |-> "External", cgl_context |-> h]

\* NativeContext::is_destroyed, the same for both implementations.
is_destroyed(native_context) == native_context.cgl_context = NULL

\* The builds of the crate: debug_assert! is compiled in (TRUE) or out.
Builds == BOOLEAN

\* The debug_assert!(!self.is_destroyed()) of OwnedCGLContext::cgl_context:
\* TRUE when the accessor panics in a build with the given debug_assertions.
cgl_context_asserts(native_context, debug_assertions) ==
    /\ debug_assertions
    /\ native_context.kind = "Owned"
    /\ is_destroyed(native_context)

\* The native_context after NativeContext::destroy: the handle is forgotten.
Mut_destroyed_keeps_handle(native_context) == native_context
destroyed(native_context) == [native_context EXCEPT !.cgl_context = NULL]

\* Whether NativeContext::destroy calls CGLDestroyContext on the handle.
Mut_destroy_is_native_always(native_context) == TRUE
Mut_destroy_is_native_never(native_context) == FALSE
destroy_is_native(native_context) == native_context.kind = "Owned"

(* ------------------------------- Context ------------------------------ *)
\* struct Context, with the thread that holds it (a Context is not Send).
Context(native_context, id, framebuffer, t) ==
    [native_context |-> native_context, id |-> id, framebuffer |-> framebuffer,
     thread |-> t]

NoContext == Context(OwnedCGLContext(NULL), 0 - 1, FramebufferNone, NoThread)

\* The contexts with a new Context value put in scope, and with one discarded.
Put(cs, c, context) ==
    [k \in DOMAIN cs \cup {c} |-> IF k = c THEN context ELSE cs[k]]
Discard(cs, c) == [k \in DOMAIN cs \ {c} |-> cs[k]]

\* Device::context_id
context_id(context) == context.id

\* The contexts a thread holds.
Held(t) == {c \in DOMAIN contexts : contexts[c].thread = t}

\* Live contexts: created or adopted, and not yet destroyed.
Live == {c \in DOMAIN contexts : ~is_destroyed(contexts[c].native_context)}

(* ------------------------------- results ------------------------------ *)
NoFlush == 0 - 1
Ret(t, op, c, s, result) ==
    [thread |-> t, op |-> op, ctx |-> c, surf |-> s, result |-> result,
     pre |-> IF c \in DOMAIN contexts THEN contexts[c] ELSE NoContext,
     flush |-> NoFlush, native_destroy |-> FALSE,
     old_cgl_context |-> NoFlush, restore |-> kCGLNoError]

\* No call returned in the last step.
NoRet == Ret(NoThread, "none", 0, NoSurface, "none")

Init ==
    /\ pc = [t \in Threads |-> "idle"]
    /\ mutex_holder = NoThread
    /\ mutex_poisoned = FALSE
    /\ next_context_id = 0
    /\ contexts = [c \in {} |-> NoContext]
    /\ built = 0
    /\ current = [t \in Threads |-> NULL]
    /\ cgl_alive = {ExternalHandle}
    /\ cgl_created = 0
    /\ cgl_destroys = [h \in {} |-> 0]
    /\ cgl_context = [t \in Threads |-> NULL]
    /\ ret = NoRet
    /\ pixel_formats = [f \in {} |-> 0]
    /\ descriptors = [d \in {} |-> 0]
    /\ context_formats = [h \in {} |-> 0]

(* ------------------------------ panics -------------------------------- *)
\* Unwinding a panicking thread discards every Context on its stack; their
\* Drop is silent because thread::panicking() holds.
Unwind(t, cs) == [c \in {k \in DOMAIN cs : cs[k].thread # t} |-> cs[c]]

\* A panic on thread t: the thread ends (and its thread-local current
\* context with it), and a MutexGuard it holds is dropped while panicking,
\* which poisons and releases the mutex.
Panic(t) ==
    /\ pc' = [pc EXCEPT ![t] = "panicked"]
    /\ current' = [current EXCEPT ![t] = NULL]
    /\ cgl_context' = [cgl_context EXCEPT ![t] = NULL]
    /\ mutex_poisoned' = (mutex_poisoned \/ mutex_holder = t)
    /\ mutex_holder' = IF mutex_holder = t THEN NoThread ELSE mutex_holder

\* Return to the caller, dropping the MutexGuard `next_context_id` if held.
Return(t) ==
    /\ pc' = [pc EXCEPT ![t] = "idle"]
    /\ mutex_holder' = IF mutex_holder = t THEN NoThread ELSE mutex_holder
    /\ UNCHANGED mutex_poisoned

(* ---------------------------- native layer ---------------------------- *)
\* The errors CGLSetCurrentContext can return for a handle: clearing the
\* current context cannot fail, making a context current can.
CGLSetCurrentContext_errors(h) == IF h = NULL THEN {kCGLNoError} ELSE CGLErrors

\* The handle CGLCreateContext returns next: never null, never a live one.
FreshHandle == ExternalHandle + cgl_created + 1

\* The calls of CGLDestroyContext so far on a handle.
Destroys(h) == IF h \in DOMAIN cgl_destroys THEN cgl_destroys[h] ELSE 0

\* CGLDestroyContext(h)
CGLDestroyContext(h) ==
    /\ cgl_alive' = cgl_alive \ {h}
    /\ cgl_destroys' = [k \in DOMAIN cgl_destroys \cup {h} |->
                          IF k = h THEN Destroys(h) + 1 ELSE cgl_destroys[k]]

\* Another library makes its own native context current on the thread: the
\* situation from_current_context is written for.
ExternalMakeCurrent(t) ==
    /\ pc[t] = "idle"
    /\ current[t] # ExternalHandle
    /\ current' = [current EXCEPT ![t] = ExternalHandle]
    /\ ret' = NoRet
    /\ UNCHANGED <<pc, mutex_holder, mutex_poisoned, next_context_id, contexts,
                   built, cgl_alive, cgl_created, cgl_destroys, cgl_context>>
    /\ UNCHANGED descriptor_vars

(* ------------------------ CREATE_CONTEXT_MUTEX ------------------------ *)
\* Whether lock() can return the guard to a caller.
Mut_lock_ignores_holder == TRUE
MutexFree == mutex_holder = NoThread

\* CREATE_CONTEXT_MUTEX.lock().unwrap(): blocks while another thread holds
\* the guard; panics when the mutex is poisoned.
lock_unwrap(t, locked) ==
    /\ MutexFree
    /\ IF mutex_poisoned
       THEN /\ Panic(t)
            /\ contexts' = Unwind(t, contexts)
            /\ ret' = Ret(t, "lock", 0, NoSurface, "panic")
       ELSE /\ mutex_holder' = t
            /\ pc' = [pc EXCEPT ![t] = locked]
            /\ ret' = NoRet
            /\ UNCHANGED <<mutex_poisoned, contexts, current, cgl_context>>
    /\ UNCHANGED <<next_context_id, built, cgl_alive, cgl_created, cgl_destroys>>
    /\ UNCHANGED descriptor_vars

(* ---------------------- create_context_descriptor --------------------- *)
\* Device::create_context_descriptor up to the call of CGLChoosePixelFormat.
create_context_descriptor(t) ==
    /\ pc[t] = "idle"
    /\ pc' = [pc EXCEPT ![t] = "ccd_CGLChoosePixelFormat"]
    /\ ret' = NoRet
    /\ UNCHANGED <<mutex_holder, mutex_poisoned, next_context_id, contexts, built,
                   current, cgl_alive, cgl_created, cgl_destroys, cgl_context>>
    /\ UNCHANGED descriptor_vars

\* CGLChoosePixelFormat returns; the error and the count are checked.
ccd_CGLChoosePixelFormat(t) ==
    /\ pc[t] = "ccd_CGLChoosePixelFormat"
    /\ \E err \in CGLErrors, cgl_pixel_format_count \in {0, 1} :
         ret' = Ret(t, "create_context_descriptor", 0, NoSurface,
                    IF err # kCGLNoError THEN "Err(PixelFormatSelectionFailed)"
                    ELSE IF cgl_pixel_format_count = 0 THEN "Err(NoPixelFormatFound)"
                    ELSE "Ok")
    /\ pc' = [pc EXCEPT ![t] = "idle"]
    /\ UNCHANGED <<mutex_holder, mutex_poisoned, next_context_id, contexts, built,
                   current, cgl_alive, cgl_created, cgl_destroys, cgl_context>>
    /\ UNCHANGED descriptor_vars

(* ------------------------ from_current_context ------------------------ *)
\* The threads inside create_context or from_current_context.
Creating == {t \in Threads : pc[t] \in {"cc_lock", "cc_CGLCreateContext",
                                        "cc_CGLSetCurrentContext",
                                        "fcc_lock", "fcc_locked"}}

\* A call of create_context or from_current_context begins: the thread
\* goes to take the lock.  At most `max` contexts are created over a run.
call_within(t, max, lock) ==
    /\ pc[t] = "idle"
    /\ built + Cardinality(Creating) < max
    /\ cgl_created + Cardinality(Creating) < max
    /\ pc' = [pc EXCEPT ![t] = lock]
    /\ ret' = NoRet
    /\ UNCHANGED <<mutex_holder, mutex_poisoned, next_context_id, contexts, built,
                   current, cgl_alive, cgl_created, cgl_destroys, cgl_context>>
    /\ UNCHANGED descriptor_vars

from_current_context_within(t, max) == call_within(t, max, "fcc_lock")

from_current_context(t) == from_current_context_within(t, MaxContexts)

\* let mut next_context_id = CREATE_CONTEXT_MUTEX.lock().unwrap();
fcc_lock(t) ==
    /\ pc[t] = "fcc_lock"
    /\ lock_unwrap(t, "fcc_locked")

\* The id a new Context gets, and the counter after it.
Mut_id_not_incremented(id) == id
Mut_id_incremented_twice(id) == id + 2
incremented(id) == id + 1

\* The body of from_current_context under the lock: wrap the current native
\* context, take the next id, then build the connection, adapter and
\* device.  An error of those returns through `?`, which drops the Context
\* just built.
fcc_body(t) ==
    /\ pc[t] = "fcc_locked"
    /\ IF current[t] = NULL
       THEN \* assert!(!cgl_context.is_null()) in UnsafeCGLContextRef::current
            /\ Panic(t)
            /\ contexts' = Unwind(t, contexts)
            /\ ret' = Ret(t, "from_current_context", 0, NoSurface, "panic")
            /\ UNCHANGED <<next_context_id, built>>
       ELSE LET context == Context(UnsafeCGLContextRef(current[t]), next_context_id,
                                   FramebufferExternal, t)
                c == built + 1
            IN  /\ next_context_id' = incremented(next_context_id)
                /\ built' = c
                /\ \E device_ok \in BOOLEAN :
                     IF device_ok
                     THEN /\ contexts' = Put(contexts, c, context)
                          /\ ret' = [Ret(t, "from_current_context", c, NoSurface, "Ok")
                                       EXCEPT !.pre = context]
                          /\ Return(t)
                          /\ UNCHANGED <<current, cgl_context>>
                     ELSE \* Drop for Context: not destroyed, not panicking.
                          /\ contexts' = Unwind(t, contexts)
                          /\ ret' = [Ret(t, "from_current_context", c, NoSurface, "panic")
                                       EXCEPT !.pre = context]
                          /\ Panic(t)
    /\ UNCHANGED <<cgl_alive, cgl_created, cgl_destroys>>
    /\ UNCHANGED descriptor_vars

(* --------------------------- create_context --------------------------- *)
create_context_within(t, max) == call_within(t, max, "cc_lock")

create_context(t) == create_context_within(t, MaxContexts)

\* let mut next_context_id = CREATE_CONTEXT_MUTEX.lock().unwrap();
cc_lock(t) ==
    /\ pc[t] = "cc_lock"
    /\ lock_unwrap(t, "cc_CGLCreateContext")

\* CGLCreateContext returns; on an error create_context returns it.
cc_CGLCreateContext(t) ==
    /\ pc[t] = "cc_CGLCreateContext"
    /\ \E err \in CGLErrors :
         IF err # kCGLNoError
         THEN /\ ret' = Ret(t, "create_context", 0, NoSurface, "Err(ContextCreationFailed)")
              /\ Return(t)
              /\ UNCHANGED <<cgl_alive, cgl_created, cgl_context>>
         ELSE /\ cgl_alive' = cgl_alive \cup {FreshHandle}
              /\ cgl_created' = cgl_created + 1
              /\ cgl_context' = [cgl_context EXCEPT ![t] = FreshHandle]
              /\ pc' = [pc EXCEPT ![t] = "cc_CGLSetCurrentContext"]
              /\ ret' = NoRet
              /\ UNCHANGED <<mutex_holder, mutex_poisoned>>
    /\ UNCHANGED <<next_context_id, contexts, built, current, cgl_destroys>>
    /\ UNCHANGED descriptor_vars

\* CGLSetCurrentContext returns; on success the Context is built with the
\* next id and the id counter is incremented, all under the lock.
cc_CGLSetCurrentContext(t) ==
    /\ pc[t] = "cc_CGLSetCurrentContext"
    /\ \E err \in CGLSetCurrentContext_errors(cgl_context[t]) :
         IF err # kCGLNoError
         THEN \* the Box<OwnedCGLContext> is dropped; it has no Drop.
              /\ ret' = Ret(t, "create_context", 0, NoSurface, "Err(MakeCurrentFailed)")
              /\ UNCHANGED <<contexts, built, next_context_id, current>>
         ELSE LET context == Context(OwnedCGLContext(cgl_context[t]), next_context_id,
                                     FramebufferNone, t)
              IN  /\ current' = [current EXCEPT ![t] = cgl_context[t]]
                  /\ contexts' = Put(contexts, built + 1, context)
                  /\ built' = built + 1
                  /\ next_context_id' = incremented(next_context_id)
                  /\ ret' = [Ret(t, "create_context", built + 1, NoSurface, "Ok")
                               EXCEPT !.pre = context]
    /\ cgl_context' = [cgl_context EXCEPT ![t] = NULL]
    /\ Return(t)
    /\ UNCHANGED <<cgl_alive, cgl_created, cgl_destroys>>
    /\ UNCHANGED descriptor_vars

(* ------------------------------ surfaces ------------------------------ *)
\* The surfaces sitting in some context's framebuffer.
Bound == {contexts[c].framebuffer.surface.sid : c \in DOMAIN contexts}

\* The Surface values a caller can hand to the library: made by the surface
\* subsystem for some context id handed out so far (the context may have
\* been destroyed since), and not a surface sitting in a framebuffer.
Offered == {Surface(sid, id) : sid \in (1..MaxSurfaces) \ Bound,
                               id \in 0..(next_context_id - 1)}

(* --------------------------- destroy_context -------------------------- *)
\* The early return of destroy_context.
Mut_destroy_skipped_when_unbound(context) ==
    is_destroyed(context.native_context) \/ context.framebuffer.tag = "None"
destroy_skipped(context) == is_destroyed(context.native_context)

destroy_context(t, c) ==
    /\ pc[t] = "idle"
    /\ c \in Held(t)
    /\ LET context == contexts[c]
           fb == context.framebuffer
           replaced == [context EXCEPT !.framebuffer = FramebufferNone]
           native == context.native_context
       IN
       IF destroy_skipped(context)
       THEN /\ ret' = [Ret(t, "destroy_context", c, NoSurface, "Ok")
                         EXCEPT !.old_cgl_context = current[t]]
            /\ UNCHANGED <<contexts, current, cgl_alive, cgl_destroys, pc,
                           mutex_holder, mutex_poisoned, cgl_context>>
       ELSE \E destroy_surface_ok \in BOOLEAN :
              IF fb.tag = "Surface" /\ ~destroy_surface_ok
              THEN \* self.destroy_surface(context, surface)? returns the error
                   /\ contexts' = [contexts EXCEPT ![c] = replaced]
                   /\ ret' = [Ret(t, "destroy_context", c, fb.surface,
                                  "Err(destroy_surface)")
                                EXCEPT !.old_cgl_context = current[t]]
                   /\ UNCHANGED <<current, cgl_alive, cgl_destroys, pc, mutex_holder,
                                  mutex_poisoned, cgl_context>>
              ELSE IF is_destroyed(native)
              THEN \* assert!(!self.is_destroyed()) in NativeContext::destroy
                   /\ Panic(t)
                   /\ contexts' = Unwind(t, contexts)
                   /\ ret' = Ret(t, "destroy_context", c, fb.surface, "panic")
                   /\ UNCHANGED <<cgl_alive, cgl_destroys>>
              ELSE /\ contexts' = [contexts EXCEPT ![c] =
                          [replaced EXCEPT !.native_context = destroyed(native)]]
                   /\ IF destroy_is_native(native)
                      THEN /\ current' = [current EXCEPT ![t] = NULL]
                           /\ CGLDestroyContext(native.cgl_context)
                      ELSE UNCHANGED <<current, cgl_alive, cgl_destroys>>
                   /\ ret' = [Ret(t, "destroy_context", c, fb.surface, "Ok")
                                EXCEPT !.native_destroy = destroy_is_native(native),
                                       !.old_cgl_context = current[t]]
                   /\ UNCHANGED <<pc, mutex_holder, mutex_poisoned, cgl_context>>
    /\ UNCHANGED <<next_context_id, built, cgl_created>>
    /\ UNCHANGED descriptor_vars

(* ---------------------------- Drop for Context ------------------------ *)
\* The condition under which Drop for Context panics; thread::panicking()
\* is false for a thread that is running.
Mut_drop_panics_owned_only(context) ==
    ~is_destroyed(context.native_context) /\ context.native_context.kind = "Owned"
drop_panics(context) == ~is_destroyed(context.native_context)

\* The caller lets a Context go out of scope.
drop_context(t, c) ==
    /\ pc[t] = "idle"
    /\ c \in Held(t)
    /\ IF drop_panics(contexts[c])
       THEN /\ Panic(t)
            /\ contexts' = Unwind(t, contexts)
            /\ ret' = Ret(t, "drop", c, NoSurface, "panic")
       ELSE /\ contexts' = Discard(contexts, c)
            /\ ret' = Ret(t, "drop", c, NoSurface, "silent")
            /\ UNCHANGED <<pc, mutex_holder, mutex_poisoned, current, cgl_context>>
    /\ UNCHANGED <<next_context_id, built, cgl_alive, cgl_created, cgl_destroys>>
    /\ UNCHANGED descriptor_vars

(* -------------------------- current context --------------------------- *)
make_context_current(t, c) ==
    /\ pc[t] = "idle"
    /\ c \in Held(t)
    /\ \E debug_assertions \in Builds :
       LET native == contexts[c].native_context IN
       IF cgl_context_asserts(native, debug_assertions)
       THEN /\ Panic(t)
            /\ contexts' = Unwind(t, contexts)
            /\ ret' = Ret(t, "make_context_current", c, NoSurface, "panic")
       ELSE /\ \E err \in CGLSetCurrentContext_errors(native.cgl_context) :
                 IF err # kCGLNoError
                 THEN /\ ret' = Ret(t, "make_context_current", c, NoSurface,
                                    "Err(MakeCurrentFailed)")
                      /\ UNCHANGED current
                 ELSE /\ ret' = Ret(t, "make_context_current", c, NoSurface, "Ok")
                      /\ current' = [current EXCEPT ![t] = native.cgl_context]
            /\ UNCHANGED <<pc, mutex_holder, mutex_poisoned, contexts, cgl_context>>
    /\ UNCHANGED <<next_context_id, built, cgl_alive, cgl_created, cgl_destroys>>
    /\ UNCHANGED descriptor_vars

make_no_context_current(t) ==
    /\ pc[t] = "idle"
    /\ current[t] # NULL
    /\ \E err \in CGLSetCurrentContext_errors(NULL) :
         /\ err = kCGLNoError
         /\ current' = [current EXCEPT ![t] = NULL]
         /\ ret' = Ret(t, "make_no_context_current", 0, NoSurface, "Ok")
    /\ UNCHANGED <<pc, mutex_holder, mutex_poisoned, next_context_id, contexts,
                   built, cgl_alive, cgl_created, cgl_destroys, cgl_context>>
    /\ UNCHANGED descriptor_vars

\* Device::context_descriptor reads the handle through cgl_context().  The
\* descriptor it returns is followed in SpecDescriptors (context_descriptor_of).
context_descriptor(t, c) ==
    /\ pc[t] = "idle"
    /\ c \in Held(t)
    /\ \E debug_assertions \in Builds :
       IF cgl_context_asserts(contexts[c].native_context, debug_assertions)
       THEN /\ Panic(t)
            /\ contexts' = Unwind(t, contexts)
            /\ ret' = Ret(t, "context_descriptor", c, NoSurface, "panic")
       ELSE /\ ret' = Ret(t, "context_descriptor", c, NoSurface, "Ok")
            /\ UNCHANGED <<pc, mutex_holder, mutex_poisoned, contexts, current,
                           cgl_context>>
    /\ UNCHANGED <<next_context_id, built, cgl_alive, cgl_created, cgl_destroys>>
    /\ UNCHANGED descriptor_vars

(* --------------------------- surface binding -------------------------- *)
\* The result of bind_surface_to_context, from its checks in order.
Mut_bind_result_unchecked_id(framebuffer, surface_context_id, id) ==
    IF framebuffer.tag = "External" THEN "Err(ExternalRenderTarget)"
    ELSE IF framebuffer.tag = "Surface" THEN "Err(SurfaceAlreadyBound)"
    ELSE "Ok"
Mut_bind_result_rebinds(framebuffer, surface_context_id, id) ==
    IF framebuffer.tag = "External" THEN "Err(ExternalRenderTarget)"
    ELSE IF surface_context_id # id THEN "Err(IncompatibleSurface)"
    ELSE "Ok"
bind_result(framebuffer, surface_context_id, id) ==
    IF framebuffer.tag = "External" THEN "Err(ExternalRenderTarget)"
    ELSE IF framebuffer.tag = "Surface" THEN "Err(SurfaceAlreadyBound)"
    ELSE IF surface_context_id # id THEN "Err(IncompatibleSurface)"
    ELSE "Ok"

bind_surface_to_context(t, c, new_surface) ==
    /\ pc[t] = "idle"
    /\ c \in Held(t)
    /\ LET context == contexts[c]
           result == bind_result(context.framebuffer, new_surface.context_id, context.id)
       IN  /\ ret' = Ret(t, "bind_surface_to_context", c, new_surface, result)
           /\ IF result = "Ok"
              THEN contexts' = [contexts EXCEPT ![c].framebuffer =
                                                  FramebufferSurface(new_surface)]
              ELSE \* new_surface goes out of scope with the error return
                   UNCHANGED contexts
    /\ UNCHANGED <<pc, mutex_holder, mutex_poisoned, next_context_id, built, current,
                   cgl_alive, cgl_created, cgl_destroys, cgl_context>>
    /\ UNCHANGED descriptor_vars

\* Drop for CurrentContextGuard: the thread's current context after
\* CGLSetCurrentContext(self.old_cgl_context) returned `restore`, which the
\* guard does not look at.
Mut_guard_keeps_current(old_cgl_context, now, restore) == now
CurrentContextGuard_drop(old_cgl_context, now, restore) ==
    IF restore = kCGLNoError THEN old_cgl_context ELSE now

\* Whether unbind_surface_from_context issues gl.Flush() for a framebuffer.
flushes(framebuffer) == framebuffer.tag = "Surface"

unbind_surface_from_context(t, c) ==
    /\ pc[t] = "idle"
    /\ c \in Held(t)
    /\ \E debug_assertions \in Builds :
       LET context == contexts[c]
           fb == context.framebuffer
           native == context.native_context
           old_cgl_context == current[t]
       IN
       IF fb.tag = "External"
       THEN /\ ret' = Ret(t, "unbind_surface_from_context", c, NoSurface,
                          "Err(ExternalRenderTarget)")
            /\ UNCHANGED <<contexts, current, pc, mutex_holder, mutex_poisoned,
                           cgl_context>>
       ELSE IF fb.tag = "None"
       THEN /\ ret' = [Ret(t, "unbind_surface_from_context", c, NoSurface, "Ok(None)")
                         EXCEPT !.old_cgl_context = old_cgl_context]
            /\ contexts' = [contexts EXCEPT ![c].framebuffer = FramebufferNone]
            /\ UNCHANGED <<current, pc, mutex_holder, mutex_poisoned, cgl_context>>
       ELSE IF cgl_context_asserts(native, debug_assertions)
       THEN \* make_context_current panics in cgl_context(); `surface` unwinds
            /\ Panic(t)
            /\ contexts' = Unwind(t, contexts)
            /\ ret' = Ret(t, "unbind_surface_from_context", c, fb.surface, "panic")
       ELSE /\ contexts' = [contexts EXCEPT ![c].framebuffer = FramebufferNone]
            /\ UNCHANGED <<pc, mutex_holder, mutex_poisoned, cgl_context>>
            /\ \E err \in CGLSetCurrentContext_errors(native.cgl_context) :
                 IF err # kCGLNoError
                 THEN \* temporarily_make_context_current(context)? returns the
                      \* error; its guard drops with the old context still current
                      /\ \E restore \in CGLSetCurrentContext_errors(old_cgl_context) :
                           /\ ret' = [Ret(t, "unbind_surface_from_context", c, fb.surface,
                                          "Err(MakeCurrentFailed)")
                                        EXCEPT !.old_cgl_context = old_cgl_context]
                           /\ current' = [current EXCEPT ![t] =
                                 CurrentContextGuard_drop(old_cgl_context,
                                                          old_cgl_context, restore)]
                 ELSE \* gl.Flush() with the context current, then the guard drops
                      /\ \E restore \in CGLSetCurrentContext_errors(old_cgl_context) :
                           /\ ret' = [Ret(t, "unbind_surface_from_context", c, fb.surface,
                                          "Ok(Some)")
                                        EXCEPT !.flush = IF flushes(fb)
                                                         THEN native.cgl_context
                                                         ELSE NoFlush,
                                               !.old_cgl_context = old_cgl_context,
                                               !.restore = restore]
                           /\ current' = [current EXCEPT ![t] =
                                 CurrentContextGuard_drop(old_cgl_context,
                                                          native.cgl_context, restore)]
    /\ UNCHANGED <<next_context_id, built, cgl_alive, cgl_created, cgl_destroys>>
    /\ UNCHANGED descriptor_vars

\* The result of context_surface_info for a framebuffer state.
context_surface_info_result(framebuffer) ==
    IF framebuffer.tag = "None" THEN "Ok(None)"
    ELSE IF framebuffer.tag = "External" THEN "Err(ExternalRenderTarget)"
    ELSE "Ok(Some)"

context_surface_info(t, c) ==
    /\ pc[t] = "idle"
    /\ c \in Held(t)
    /\ ret' = Ret(t, "context_surface_info", c, contexts[c].framebuffer.surface,
                  context_surface_info_result(contexts[c].framebuffer))
    /\ UNCHANGED <<pc, mutex_holder, mutex_poisoned, next_context_id, contexts,
                   built, current, cgl_alive, cgl_created, cgl_destroys, cgl_context>>
    /\ UNCHANGED descriptor_vars

(* ---------------------------- specification --------------------------- *)
Next ==
    \E t \in Threads :
        \/ ExternalMakeCurrent(t)
        \/ create_context_descriptor(t)
        \/ ccd_CGLChoosePixelFormat(t)
        \/ from_current_context(t)
        \/ fcc_lock(t)
        \/ fcc_body(t)
        \/ create_context(t)
        \/ cc_lock(t)
        \/ cc_CGLCreateContext(t)
        \/ cc_CGLSetCurrentContext(t)
        \/ make_no_context_current(t)
        \/ \E c \in DOMAIN contexts :
              \/ destroy_context(t, c)
              \/ drop_context(t, c)
              \/ make_context_current(t, c)
              \/ context_descriptor(t, c)
              \/ unbind_surface_from_context(t, c)
              \/ context_surface_info(t, c)
              \/ \E s \in Offered : bind_surface_to_context(t, c, s)

Spec == Init /\ [][Next]_vars

\* The life cycle of contexts alone: creation, adoption, the current
\* context, destruction and discarding, with more contexts than Spec and no
\* surfaces.
NextLifecycle ==
    \E t \in Threads :
        \/ ExternalMakeCurrent(t)
        \/ create_context_descriptor(t)
        \/ ccd_CGLChoosePixelFormat(t)
        \/ from_current_context_within(t, MaxLifecycleContexts)
        \/ fcc_lock(t)
        \/ fcc_body(t)
        \/ create_context_within(t, MaxLifecycleContexts)
        \/ cc_lock(t)
        \/ cc_CGLCreateContext(t)
        \/ cc_CGLSetCurrentContext(t)
        \/ make_no_context_current(t)
        \/ \E c \in DOMAIN contexts :
              \/ destroy_context(t, c)
              \/ drop_context(t, c)
              \/ make_context_current(t, c)

SpecLifecycle == Init /\ [][NextLifecycle]_vars

(* ------------------------- ContextDescriptor -------------------------- *)
\* The CGLPixelFormatAttribute values of the three OpenGL profiles.
kCGLOGLPVersion_Legacy == 4096
kCGLOGLPVersion_3_2_Core == 12800
kCGLOGLPVersion_GL4_Core == 16640

\* ContextAttributeFlags and ContextAttributes { flags, version }.
ContextAttributeFlags == {"ALPHA", "DEPTH", "STENCIL"}
GLVersion(major, minor) == [major |-> major, minor |-> minor]
ContextAttributes(flags, version) == [flags |-> flags, version |-> version]

\* The attribute sets a caller requests.
Attributes == {ContextAttributes(flags, GLVersion(major, minor)) :
                  flags \in SUBSET ContextAttributeFlags,
                  major \in 0..MaxMajor, minor \in 0..MaxMinor}

\* The attribute set of the end-to-end scenario: GL 3.2 with alpha and depth.
DefaultAttributes == ContextAttributes({"ALPHA", "DEPTH"}, GLVersion(3, 2))

\* `profile` in create_context_descriptor.
Mut_profile_by_minor(version) ==
    IF version.major >= 4 THEN kCGLOGLPVersion_GL4_Core
    ELSE IF version.major = 3 THEN kCGLOGLPVersion_3_2_Core + 256 * version.minor
    ELSE kCGLOGLPVersion_Legacy
profile(version) ==
    IF version.major >= 4 THEN kCGLOGLPVersion_GL4_Core
    ELSE IF version.major = 3 THEN kCGLOGLPVersion_3_2_Core
    ELSE kCGLOGLPVersion_Legacy

\* cgl_pixel_format_attributes: the values passed for kCGLPFAOpenGLProfile,
\* kCGLPFAAlphaSize, kCGLPFADepthSize and kCGLPFAStencilSize.
cgl_pixel_format_attributes(attributes) ==
    [kCGLPFAOpenGLProfile |-> profile(attributes.version),
     kCGLPFAAlphaSize     |-> IF "ALPHA" \in attributes.flags THEN 8 ELSE 0,
     kCGLPFADepthSize     |-> IF "DEPTH" \in attributes.flags THEN 24 ELSE 0,
     kCGLPFAStencilSize   |-> IF "STENCIL" \in attributes.flags THEN 8 ELSE 0]

\* A native pixel format object: its retain count, the values
\* CGLDescribePixelFormat reports (a native layer that reports back what was
\* requested), and, as history, the attributes it was chosen for.
PixelFormat(attributes) ==
    [retain_count |-> 1,
     described |-> cgl_pixel_format_attributes(attributes),
     requested |-> attributes]

\* struct ContextDescriptor
ContextDescriptor(cgl_pixel_format) == [cgl_pixel_format |-> cgl_pixel_format]

\* The attributes context_descriptor_attributes rebuilds from what
\* CGLDescribePixelFormat reports: a flag per non-zero size, and the version
\* from the bits 12..15 and 8..11 of the profile.
attributes_described(described) ==
    LET gl_profile == described.kCGLPFAOpenGLProfile
    IN  ContextAttributes(
            {flag \in ContextAttributeFlags :
                \/ flag = "ALPHA" /\ described.kCGLPFAAlphaSize # 0
                \/ flag = "DEPTH" /\ described.kCGLPFADepthSize # 0
                \/ flag = "STENCIL" /\ described.kCGLPFAStencilSize # 0},
            GLVersion(((gl_profile \div 4096) % 16) % 256,
                      ((gl_profile \div 256) % 16) % 256))

\* The retain count after CGLRetainPixelFormat and CGLReleasePixelFormat.
Mut_not_retained(retain_count) == retain_count
retained(retain_count) == retain_count + 1
released(retain_count) == retain_count - 1

CGLRetainPixelFormat(formats, f) ==
    [formats EXCEPT ![f].retain_count = retained(@)]
CGLReleasePixelFormat(formats, f) ==
    [formats EXCEPT ![f].retain_count = released(@)]

\* The descriptors that wrap a pixel format, and the native contexts that
\* were created with it and retain it until they are destroyed.
Wrapping(f) == {d \in DOMAIN descriptors : descriptors[d].cgl_pixel_format = f}
Using(f) == {h \in cgl_alive \cap DOMAIN context_formats : context_formats[h] = f}

\* The next CGLPixelFormatObj and the next free place for a descriptor.
FreshFormat == Cardinality(DOMAIN pixel_formats) + 1
FreshDescriptor == CHOOSE d \in 1..MaxDescriptors : d \notin DOMAIN descriptors

\* What a call on descriptors returned.
DescriptorRet(op, d, attributes, result) ==
    [thread |-> NoThread, op |-> op, descriptor |-> d, attributes |-> attributes,
     result |-> result, cgl_pixel_format |-> 0, retain_count |-> 0]

\* The operations on descriptors leave the contexts' side alone.
context_side_unchanged ==
    UNCHANGED <<pc, mutex_holder, mutex_poisoned, next_context_id, contexts, built,
                current, cgl_context>>

\* Device::create_context_descriptor as one call, for one of the given
\* attribute sets and with at most `max` pixel formats chosen over a run.
create_context_descriptor_from(attribute_sets, max) ==
    /\ Cardinality(DOMAIN descriptors) < MaxDescriptors
    /\ FreshFormat <= max
    /\ \E attributes \in attribute_sets, err \in CGLErrors,
          cgl_pixel_format_count \in {0, 1} :
         IF err # kCGLNoError
         THEN /\ ret' = DescriptorRet("create_context_descriptor", 0, attributes,
                                      "Err(PixelFormatSelectionFailed)")
              /\ UNCHANGED <<pixel_formats, descriptors>>
         ELSE IF cgl_pixel_format_count = 0
         THEN /\ ret' = DescriptorRet("create_context_descriptor", 0, attributes,
                                      "Err(NoPixelFormatFound)")
              /\ UNCHANGED <<pixel_formats, descriptors>>
         ELSE /\ pixel_formats' = Put(pixel_formats, FreshFormat, PixelFormat(attributes))
              /\ descriptors' = Put(descriptors, FreshDescriptor,
                                    ContextDescriptor(FreshFormat))
              /\ ret' = DescriptorRet("create_context_descriptor", FreshDescriptor,
                                      attributes, "Ok")
    /\ UNCHANGED <<context_formats, cgl_alive, cgl_created, cgl_destroys>>
    /\ context_side_unchanged

\* Device::context_descriptor_attributes
context_descriptor_attributes(d) ==
    /\ ret' = DescriptorRet("context_descriptor_attributes", d,
                attributes_described(
                    pixel_formats[descriptors[d].cgl_pixel_format].described),
                "Ok")
    /\ UNCHANGED <<descriptor_vars, cgl_alive, cgl_created, cgl_destroys>>
    /\ context_side_unchanged

\* Clone for ContextDescriptor
clone(d) ==
    /\ Cardinality(DOMAIN descriptors) < MaxDescriptors
    /\ LET f == descriptors[d].cgl_pixel_format
       IN  /\ pixel_formats' = CGLRetainPixelFormat(pixel_formats, f)
           /\ descriptors' = Put(descriptors, FreshDescriptor, ContextDescriptor(f))
           /\ ret' = [DescriptorRet("clone", FreshDescriptor,
                                    pixel_formats[f].requested, "Ok")
                        EXCEPT !.cgl_pixel_format = f,
                               !.retain_count = pixel_formats[f].retain_count]
    /\ UNCHANGED <<context_formats, cgl_alive, cgl_created, cgl_destroys>>
    /\ context_side_unchanged

\* Drop for ContextDescriptor
drop(d) ==
    /\ LET f == descriptors[d].cgl_pixel_format
       IN  /\ pixel_formats' = CGLReleasePixelFormat(pixel_formats, f)
           /\ descriptors' = Discard(descriptors, d)
           /\ ret' = [DescriptorRet("drop", d, pixel_formats[f].requested, "Ok")
                        EXCEPT !.cgl_pixel_format = f,
                               !.retain_count = pixel_formats[f].retain_count]
    /\ UNCHANGED <<context_formats, cgl_alive, cgl_created, cgl_destroys>>
    /\ context_side_unchanged

\* CGLCreateContext(descriptor.cgl_pixel_format, ...) succeeds: the native
\* context retains the pixel format it is created with.
CGLCreateContext(d) ==
    /\ cgl_created < MaxDescriptorContexts
    /\ LET f == descriptors[d].cgl_pixel_format
       IN  /\ pixel_formats' = CGLRetainPixelFormat(pixel_formats, f)
           /\ context_formats' = Put(context_formats, FreshHandle, f)
    /\ cgl_alive' = cgl_alive \cup {FreshHandle}
    /\ cgl_created' = cgl_created + 1
    /\ ret' = NoRet
    /\ UNCHANGED <<descriptors, cgl_destroys>>
    /\ context_side_unchanged

\* Device::context_descriptor on a live context with the native context h:
\* CGLGetPixelFormat, then CGLRetainPixelFormat for the new descriptor.
context_descriptor_of(h) ==
    /\ h \in cgl_alive \cap DOMAIN context_formats
    /\ Cardinality(DOMAIN descriptors) < MaxDescriptors
    /\ LET cgl_pixel_format == context_formats[h]
       IN  /\ pixel_formats' = CGLRetainPixelFormat(pixel_formats, cgl_pixel_format)
           /\ descriptors' = Put(descriptors, FreshDescriptor,
                                 ContextDescriptor(cgl_pixel_format))
           /\ ret' = [DescriptorRet("context_descriptor", FreshDescriptor,
                                    pixel_formats[cgl_pixel_format].requested, "Ok")
                        EXCEPT !.cgl_pixel_format = cgl_pixel_format,
                               !.retain_count =
                                  pixel_formats[cgl_pixel_format].retain_count]
    /\ UNCHANGED <<context_formats, cgl_alive, cgl_created, cgl_destroys>>
    /\ context_side_unchanged

\* OwnedCGLContext::destroy on the native context h: CGLDestroyContext, with
\* which the native context gives up its pixel format.
destroy(h) ==
    /\ h \in cgl_alive \cap DOMAIN context_formats
    /\ CGLDestroyContext(h)
    /\ pixel_formats' = CGLReleasePixelFormat(pixel_formats, context_formats[h])
    /\ ret' = NoRet
    /\ UNCHANGED <<descriptors, context_formats, cgl_created>>
    /\ context_side_unchanged

\* Any number of descriptors, clones and contexts for one attribute set.
NextDescriptors ==
    \/ create_context_descriptor_from({DefaultAttributes}, MaxPixelFormats)
    \/ \E d \in DOMAIN descriptors :
          \/ context_descriptor_attributes(d)
          \/ clone(d)
          \/ drop(d)
          \/ CGLCreateContext(d)
    \/ \E h \in cgl_alive :
          \/ context_descriptor_of(h)
          \/ destroy(h)

SpecDescriptors == Init /\ [][NextDescriptors]_vars

\* One pixel format for any of the attribute sets, and its descriptors.
NextAttributes ==
    \/ create_context_descriptor_from(Attributes, 1)
    \/ \E d \in DOMAIN descriptors :
          \/ context_descriptor_attributes(d)
          \/ clone(d)
          \/ drop(d)

SpecAttributes == Init /\ [][NextAttributes]_vars

\* Creation alone, run to completion: threads adopt the context that is
\* current on them and create contexts, up to MaxLifecycleContexts times.
\* from_current_context is called as documented, with a current context.
from_current_context_with_current(t) ==
    /\ current[t] # NULL
    /\ from_current_context_within(t, MaxLifecycleContexts)

NextCreation ==
    \E t \in Threads :
        \/ ExternalMakeCurrent(t)
        \/ from_current_context_with_current(t)
        \/ fcc_lock(t)
        \/ fcc_body(t)
        \/ create_context_within(t, MaxLifecycleContexts)
        \/ cc_lock(t)
        \/ cc_CGLCreateContext(t)
        \/ cc_CGLSetCurrentContext(t)
        \/ make_no_context_current(t)

\* Threads are scheduled fairly and every native call completes: a thread
\* inside a creation takes its next step, and takes the lock if the lock
\* stays free.
CreationFairness ==
    \A t \in Threads :
        /\ WF_vars(fcc_lock(t))
        /\ WF_vars(fcc_body(t))
        /\ WF_vars(cc_lock(t))
        /\ WF_vars(cc_CGLCreateContext(t))
        /\ WF_vars(cc_CGLSetCurrentContext(t))

SpecCreation == Init /\ [][NextCreation]_vars /\ CreationFairness

(* ------------------------------- claims ------------------------------- *)
Creations == {"create_context", "from_current_context"}
Kind(context) == context.native_context.kind
DestroyedNow(c) == c \in DOMAIN contexts /\ is_destroyed(contexts[c].native_context)

\* C1: in every reachable state the ids of the live contexts (created or
\* adopted, not yet destroyed) are pairwise distinct, on whatever threads
\* they were built; so a context created after a destroy_context never
\* gets the id of a context that is still live.
C1_LiveIdsDistinct ==
    \A c1 \in Live, c2 \in Live :
        c1 # c2 => context_id(contexts[c1]) # context_id(contexts[c2])

\* A context has just been created while an earlier context is destroyed
\* and another context, held by another thread, is still live.
C1_Witness ==
    /\ ret.op \in Creations
    /\ ret.result = "Ok"
    /\ \E d \in DOMAIN contexts, l \in Live :
          /\ d < ret.ctx
          /\ DestroyedNow(d)
          /\ l # ret.ctx
          /\ contexts[l].thread # ret.thread

\* C2 as stated: every call of destroy_context returns Ok(()), and no
\* native handle is destroyed more than once.
C2_Original ==
    /\ ret.op = "destroy_context" => ret.result = "Ok"
    /\ \A h \in DOMAIN cgl_destroys : cgl_destroys[h] <= 1

\* C2, amended: a call of destroy_context returns Ok(()) unless a surface
\* is bound to the not yet destroyed context and the surface subsystem
\* fails to destroy it (then that error is returned and the context is not
\* destroyed); a call that returns Ok(()) leaves the context destroyed, a
\* call on a destroyed context returns Ok(()) and changes nothing, and no
\* native handle is destroyed more than once.
C2_DestroyIdempotent ==
    /\ ret.op = "destroy_context" =>
         /\ ret.result \in {"Ok", "Err(destroy_surface)"}
         /\ ret.result = "Err(destroy_surface)" =>
              /\ ret.pre.framebuffer.tag = "Surface"
              /\ ~is_destroyed(ret.pre.native_context)
              /\ ~DestroyedNow(ret.ctx)
         /\ ret.result = "Ok" => DestroyedNow(ret.ctx)
         /\ is_destroyed(ret.pre.native_context) =>
              /\ ret.result = "Ok"
              /\ ~ret.native_destroy
              /\ contexts[ret.ctx] = ret.pre
    /\ \A h \in DOMAIN cgl_destroys : cgl_destroys[h] <= 1

\* destroy_context has just been called again on an owned context that an
\* earlier call destroyed natively.
C2_Witness ==
    /\ ret.op = "destroy_context"
    /\ Kind(ret.pre) = "Owned"
    /\ is_destroyed(ret.pre.native_context)
    /\ \E h \in DOMAIN cgl_destroys : cgl_destroys[h] = 1

\* C3: External is a permanent trap state: a context adopted with
\* from_current_context has the framebuffer state External in every
\* reachable state, binding, unbinding and context_surface_info on it fail
\* with ExternalRenderTarget, and no context made by create_context is
\* ever in the state External.
C3_ExternalIsPermanent ==
    /\ \A c \in DOMAIN contexts :
          Kind(contexts[c]) = "External" <=> contexts[c].framebuffer.tag = "External"
    /\ ( /\ ret.op \in {"bind_surface_to_context", "unbind_surface_from_context",
                        "context_surface_info"}
         /\ Kind(ret.pre) = "External" )
       => ret.result = "Err(ExternalRenderTarget)"

\* C4 as stated: bind_surface_to_context fails with IncompatibleSurface
\* whenever the surface's context id differs from the context's id, and
\* with equal ids and the state None it succeeds and binds the surface.
C4_Original ==
    ret.op = "bind_surface_to_context" =>
        /\ ret.surf.context_id # ret.pre.id => ret.result = "Err(IncompatibleSurface)"
        /\ (ret.surf.context_id = ret.pre.id /\ ret.pre.framebuffer.tag = "None") =>
             /\ ret.result = "Ok"
             /\ contexts[ret.ctx].framebuffer = FramebufferSurface(ret.surf)

\* C4, amended: on a context whose framebuffer state is None,
\* bind_surface_to_context fails with IncompatibleSurface whenever the
\* surface's context id differs from the context's id (leaving the context
\* unchanged), and with equal ids it succeeds and moves the framebuffer to
\* Surface(s); in the states Surface and External it fails with
\* SurfaceAlreadyBound and ExternalRenderTarget, whatever the ids.
C4_BindChecksOwner ==
    ret.op = "bind_surface_to_context" =>
        /\ ret.pre.framebuffer.tag = "None" =>
             /\ ret.surf.context_id # ret.pre.id =>
                  /\ ret.result = "Err(IncompatibleSurface)"
                  /\ contexts[ret.ctx] = ret.pre
             /\ ret.surf.context_id = ret.pre.id =>
                  /\ ret.result = "Ok"
                  /\ contexts[ret.ctx] =
                       [ret.pre EXCEPT !.framebuffer = FramebufferSurface(ret.surf)]
        /\ ret.pre.framebuffer.tag = "Surface" => ret.result = "Err(SurfaceAlreadyBound)"
        /\ ret.pre.framebuffer.tag = "External" => ret.result = "Err(ExternalRenderTarget)"

\* A surface made for another context has just been refused by a live
\* context with nothing bound.
C4_Witness ==
    /\ ret.op = "bind_surface_to_context"
    /\ ret.pre.framebuffer.tag = "None"
    /\ ~is_destroyed(ret.pre.native_context)
    /\ ret.surf.context_id # ret.pre.id
    /\ ret.result = "Err(IncompatibleSurface)"

\* C5: bind_surface_to_context on a context that holds a surface fails
\* with SurfaceAlreadyBound for every offered surface and leaves the
\* context as it was: same bound surface, same id, same native context.
C5_AlreadyBoundUnchanged ==
    (ret.op = "bind_surface_to_context" /\ ret.pre.framebuffer.tag = "Surface") =>
        /\ ret.result = "Err(SurfaceAlreadyBound)"
        /\ contexts[ret.ctx] = ret.pre

\* A surface made for this very context has just been refused because
\* another surface is bound.
C5_Witness ==
    /\ ret.op = "bind_surface_to_context"
    /\ ret.pre.framebuffer.tag = "Surface"
    /\ ret.surf.context_id = ret.pre.id
    /\ ret.surf.sid # ret.pre.framebuffer.surface.sid
    /\ ret.result = "Err(SurfaceAlreadyBound)"

\* C6: unbind_surface_from_context on a context in the state None returns
\* Ok(None), leaves the state None and issues no flush; on a context in
\* the state Surface(s) a successful call returns Ok(Some(s)) with that
\* surface, leaves the state None, and the flush was issued while that
\* context was the thread's current context.
C6_UnbindFlushes ==
    ret.op = "unbind_surface_from_context" =>
        /\ ret.pre.framebuffer.tag = "None" =>
             /\ ret.result = "Ok(None)"
             /\ contexts[ret.ctx].framebuffer = FramebufferNone
             /\ ret.flush = NoFlush
        /\ (ret.pre.framebuffer.tag = "Surface" /\ ret.result \in {"Ok(None)", "Ok(Some)"}) =>
             /\ ret.result = "Ok(Some)"
             /\ ret.surf = ret.pre.framebuffer.surface
             /\ contexts[ret.ctx].framebuffer = FramebufferNone
             /\ ret.flush # NULL
             /\ ret.flush = ret.pre.native_context.cgl_context

\* C7: discarding a Context whose native context is not marked destroyed
\* panics, for owned and adopted contexts alike, and discarding a destroyed
\* one is silent; so a Context that was discarded without a panic had been
\* destroyed before.
C7_DropPanicsUnlessDestroyed ==
    ret.op = "drop" =>
        IF is_destroyed(ret.pre.native_context)
        THEN /\ ret.result = "silent"
             /\ pc[ret.thread] = "idle"
             /\ ret.ctx \notin DOMAIN contexts
        ELSE /\ ret.result = "panic"
             /\ pc[ret.thread] = "panicked"

\* An adopted context that was never destroyed has just been discarded.
C7_Witness ==
    /\ ret.op = "drop"
    /\ Kind(ret.pre) = "External"
    /\ ~is_destroyed(ret.pre.native_context)
    /\ ret.result = "panic"

\* C8 as stated: destroy_context on an adopted context never calls the
\* native destroy primitive, and no handle that a not yet destroyed adopted
\* context wraps has been destroyed natively.
C8_Original ==
    /\ (ret.op = "destroy_context" /\ Kind(ret.pre) = "External") => ~ret.native_destroy
    /\ \A c \in Live :
          Kind(contexts[c]) = "External" =>
              Destroys(contexts[c].native_context.cgl_context) = 0

\* C8, amended: destroy_context on an adopted context only marks it
\* destroyed and never calls the native destroy primitive, and the library
\* never destroys a native context it did not create; but a handle that
\* create_context created and from_current_context then adopted is
\* destroyed by destroy_context on the owning context, even while the
\* adopted context still wraps it.
C8_AdoptedNotDestroyedNatively ==
    /\ (ret.op = "destroy_context" /\ Kind(ret.pre) = "External") =>
          /\ ~ret.native_destroy
          /\ ret.result = "Ok"
          /\ DestroyedNow(ret.ctx)
    /\ ret.native_destroy => (ret.op = "destroy_context" /\ Kind(ret.pre) = "Owned")
    /\ ExternalHandle \in cgl_alive
    /\ \A h \in DOMAIN cgl_destroys :
          h \in (ExternalHandle + 1)..(ExternalHandle + cgl_created)

\* destroy_context has just been called on a live adopted context that
\* wraps the native context of another library.
C8_Witness ==
    /\ ret.op = "destroy_context"
    /\ Kind(ret.pre) = "External"
    /\ ret.pre.native_context.cgl_context = ExternalHandle
    /\ DestroyedNow(ret.ctx)

\* The threads that hold the lock, between lock() and the return.
InSection == {t \in Threads : pc[t] \in {"cc_CGLCreateContext",
                                         "cc_CGLSetCurrentContext", "fcc_locked"}}

\* C9: at no time are two threads inside the section of create_context or
\* from_current_context that makes the native calls and allocates the id,
\* and the contexts get strictly increasing ids in the order of creation.
C9_CreationExclusive ==
    /\ Cardinality(InSection) <= 1
    /\ \A t \in InSection : mutex_holder = t
    /\ \A c1 \in DOMAIN contexts, c2 \in DOMAIN contexts :
          c1 < c2 => contexts[c1].id < contexts[c2].id
    /\ \A c \in DOMAIN contexts : contexts[c].id < next_context_id

\* One thread is inside CGLSetCurrentContext of create_context while the
\* other waits for the lock, and a context was created before.
C9_Witness ==
    /\ \E t1 \in Threads, t2 \in Threads :
          /\ pc[t1] = "cc_CGLSetCurrentContext"
          /\ pc[t2] \in {"cc_lock", "fcc_lock"}
    /\ DOMAIN contexts # {}

\* C10: the native pixel format selection of create_context_descriptor
\* never runs while another thread selects a pixel format or creates a
\* native context: the creation lock is held during descriptor creation.
C10_PixelFormatSelectionSerialized ==
    \A t \in Threads :
        pc[t] = "ccd_CGLChoosePixelFormat" =>
            \A u \in Threads \ {t} :
                pc[u] \notin {"ccd_CGLChoosePixelFormat", "cc_CGLCreateContext"}

\* C11: a successful create_context returns an owned, not destroyed context
\* with the framebuffer state None, whose id is the value of the counter
\* when the id is taken under the lock; the counter is then one more and
\* the new native context is current on the calling thread.  A failure of
\* the native creation returns ContextCreationFailed and a failure to make
\* the context current returns MakeCurrentFailed, both without building a
\* context and without consuming an id.
C11_CreateContextResult ==
    [][\A t \in Threads :
         (pc[t] \in {"cc_CGLCreateContext", "cc_CGLSetCurrentContext"} /\ pc'[t] = "idle") =>
            /\ ret'.op = "create_context"
            /\ ret'.thread = t
            /\ mutex_holder' # t
            /\ IF ret'.result = "Ok"
               THEN /\ pc[t] = "cc_CGLSetCurrentContext"
                    /\ ret'.ctx \notin DOMAIN contexts
                    /\ ret'.ctx \in DOMAIN contexts'
                    /\ contexts'[ret'.ctx] =
                         Context(OwnedCGLContext(cgl_context[t]), next_context_id,
                                 FramebufferNone, t)
                    /\ ~is_destroyed(contexts'[ret'.ctx].native_context)
                    /\ cgl_context[t] \in cgl_alive'
                    /\ next_context_id' = next_context_id + 1
                    /\ current'[t] = cgl_context[t]
               ELSE /\ ret'.result = IF pc[t] = "cc_CGLCreateContext"
                                     THEN "Err(ContextCreationFailed)"
                                     ELSE "Err(MakeCurrentFailed)"
                    /\ next_context_id' = next_context_id
                    /\ contexts' = contexts
    ]_vars

\* create_context has just returned a context that is current on its
\* thread, after other contexts were given ids.
C11_Witness ==
    /\ ret.op = "create_context"
    /\ ret.result = "Ok"
    /\ ret.pre.id > 0
    /\ ret.ctx \in DOMAIN contexts
    /\ current[ret.thread] = contexts[ret.ctx].native_context.cgl_context

\* The version a profile tier stands for.
TierVersion(major) ==
    IF major >= 4 THEN GLVersion(4, 1)
    ELSE IF major = 3 THEN GLVersion(3, 2)
    ELSE GLVersion(1, 0)

\* C12: with a native layer that reports back the requested sizes and
\* profile, context_descriptor_attributes on the descriptor that
\* create_context_descriptor made for the attributes A returns exactly A's
\* flags, and the version of the tier of A's major version: 4.1 for a major
\* version of 4 or more, 3.2 for 3, and 1.0 otherwise.
C12_AttributeRoundTrip ==
    ret.op = "context_descriptor_attributes" =>
        LET A == pixel_formats[descriptors[ret.descriptor].cgl_pixel_format].requested
        IN  /\ ret.attributes.flags = A.flags
            /\ ret.attributes.version = TierVersion(A.version.major)

\* The attributes of a descriptor requested as GL 3.1 with depth and
\* stencil, or as GL 5.2 with alpha, have just been read back.
C12_Witness ==
    /\ ret.op = "context_descriptor_attributes"
    /\ pixel_formats[descriptors[ret.descriptor].cgl_pixel_format].requested \in
          {ContextAttributes({"DEPTH", "STENCIL"}, GLVersion(3, 1)),
           ContextAttributes({"ALPHA"}, GLVersion(5, 2))}
    /\ ret.attributes.version \in {GLVersion(3, 2), GLVersion(4, 1)}

\* C13: the retain count of a native pixel format is at least the number
\* of ContextDescriptor values in scope that wrap it (it is that number plus
\* the native contexts created with it and not destroyed), so no pixel
\* format is freed while a descriptor wraps it; create_context_descriptor,
\* clone and context_descriptor each account for one retain and the drop of
\* a descriptor releases exactly once.
C13_DescriptorsRetained ==
    /\ \A d \in DOMAIN descriptors : descriptors[d].cgl_pixel_format \in DOMAIN pixel_formats
    /\ \A f \in DOMAIN pixel_formats :
          /\ pixel_formats[f].retain_count >= Cardinality(Wrapping(f))
          /\ pixel_formats[f].retain_count =
                Cardinality(Wrapping(f)) + Cardinality(Using(f))
          /\ Wrapping(f) # {} => pixel_formats[f].retain_count > 0
    /\ ret.op \in {"clone", "context_descriptor"} =>
          /\ ret.descriptor \in Wrapping(ret.cgl_pixel_format)
          /\ pixel_formats[ret.cgl_pixel_format].retain_count = ret.retain_count + 1
    /\ ret.op = "drop" =>
          /\ ret.descriptor \notin DOMAIN descriptors
          /\ pixel_formats[ret.cgl_pixel_format].retain_count = ret.retain_count - 1

\* A descriptor has just been dropped while a clone of it, or a descriptor
\* taken from a context, still wraps the pixel format, after the native
\* context created with that format was destroyed.
C13_Witness ==
    /\ ret.op = "drop"
    /\ Wrapping(ret.cgl_pixel_format) # {}
    /\ Using(ret.cgl_pixel_format) = {}
    /\ \E h \in DOMAIN context_formats :
          context_formats[h] = ret.cgl_pixel_format /\ h \notin cgl_alive

C15_SurfaceErrorPropagates ==
    (ret.op = "destroy_context" /\ ~is_destroyed(ret.pre.native_context)) =>
        /\ ret.result \in {"Ok", "Err(destroy_surface)"}
        /\ ret.result = "Err(destroy_surface)" =>
              /\ ret.pre.framebuffer.tag = "Surface"
              /\ ret.surf = ret.pre.framebuffer.surface
              /\ ~ret.native_destroy
              /\ contexts[ret.ctx].native_context = ret.pre.native_context
              /\ drop_panics(contexts[ret.ctx])
              /\ Kind(ret.pre) = "Owned" =>
                    /\ ret.pre.native_context.cgl_context \in cgl_alive
                    /\ Destroys(ret.pre.native_context.cgl_context) = 0
        /\ ret.result = "Ok" =>
              /\ DestroyedNow(ret.ctx)
              /\ contexts[ret.ctx].framebuffer = FramebufferNone
              /\ Kind(ret.pre) = "Owned" =>
                    /\ ret.native_destroy
                    /\ Destroys(ret.pre.native_context.cgl_context) = 1

\* destroy_context on an owned context with a bound surface has just
\* returned the error of the surface's destruction.
C15_Witness ==
    /\ ret.op = "destroy_context"
    /\ ret.result = "Err(destroy_surface)"
    /\ Kind(ret.pre) = "Owned"
    /\ ret.pre.framebuffer.tag = "Surface"
    /\ ~DestroyedNow(ret.ctx)

\* C16: under fair scheduling, with native calls that complete, no call of
\* create_context or from_current_context ends in a panic, whether at the
\* lock or in its body, and every thread that waits for the creation lock
\* eventually has returned from its call, with the lock released.
C16_CreationReturns ==
    /\ [](ret.op \in Creations \cup {"lock"} => ret.result # "panic")
    /\ [](\A t \in Threads : pc[t] = "idle" => mutex_holder # t)
    /\ \A t \in Threads : (pc[t] \in {"cc_lock", "fcc_lock"}) ~> (pc[t] = "idle")

\* C17: a failed creation leaks no native context: when create_context
\* returns, the native context it created is owned by the Context it
\* returns or has been destroyed natively; after MakeCurrentFailed the
\* native context just created is not left alive without an owner.
C17_NoLeakOnFailedCreation ==
    ret.op = "create_context" =>
        LET created == ExternalHandle + cgl_created
        IN  /\ ret.result = "Ok" =>
                  contexts[ret.ctx].native_context = OwnedCGLContext(created)
            /\ ret.result = "Err(MakeCurrentFailed)" => created \notin cgl_alive

\* C18: a destroyed context never holds a surface: in every reachable
\* state a context whose native context is destroyed has a framebuffer
\* state other than Surface, and bind_surface_to_context does not attach a
\* surface to a destroyed context.
C18_DestroyedHoldsNoSurface ==
    /\ \A c \in DOMAIN contexts :
          DestroyedNow(c) => contexts[c].framebuffer.tag # "Surface"
    /\ ( /\ ret.op = "bind_surface_to_context"
         /\ is_destroyed(ret.pre.native_context) ) => ret.result # "Ok"

\* C19: when unbind_surface_from_context returns MakeCurrentFailed, the
\* framebuffer state of the context is what it was before the call: the
\* surface that was bound is still bound.
C19_UnbindFailureKeepsSurface ==
    ( /\ ret.op = "unbind_surface_from_context"
      /\ ret.result = "Err(MakeCurrentFailed)" )
    => contexts[ret.ctx].framebuffer = ret.pre.framebuffer

\* C20: a failure of from_current_context is an ordinary error: when the
\* connection, the adapter or the device cannot be made after the adopted
\* Context was built, the call returns the error without a panic, and the
\* creation lock is not poisoned, so that later creations can succeed.
C20_AdoptionFailureIsAnError ==
    /\ ret.op = "from_current_context" => ret.result # "panic"
    /\ ~mutex_poisoned

\* C21: a successful destroy_context on a not yet destroyed owned context
\* leaves the calling thread with no current context, whether that context,
\* another context or none was current before; destroy_context on an
\* adopted context or on a destroyed context leaves the thread's current
\* context as it was.
C21_DestroyClearsCurrent ==
    (ret.op = "destroy_context" /\ ret.result = "Ok") =>
        IF Kind(ret.pre) = "Owned" /\ ~is_destroyed(ret.pre.native_context)
        THEN current[ret.thread] = NULL
        ELSE current[ret.thread] = ret.old_cgl_context

\* destroy_context has just destroyed an owned context while another
\* context was current on the thread, which now has no current context.
C21_Witness ==
    /\ ret.op = "destroy_context"
    /\ ret.result = "Ok"
    /\ Kind(ret.pre) = "Owned"
    /\ ret.native_destroy
    /\ ret.old_cgl_context \notin {NULL, ret.pre.native_context.cgl_context}
    /\ current[ret.thread] = NULL

\* C22: the assertions of the native context wrappers never fail: no
\* operation of Device on a context panics, NativeContext::destroy is never
\* called on a destroyed handle, and the accessor cgl_context() of an owned
\* context, which make_context_current and context_descriptor call always
\* and unbind_surface_from_context calls when a surface is bound, is never
\* called on a destroyed handle.
C22_AssertionsHold ==
    /\ ret.op \in {"make_context_current", "context_descriptor",
                   "bind_surface_to_context", "unbind_surface_from_context",
                   "destroy_context"} => ret.result # "panic"
    /\ ret.native_destroy => ~is_destroyed(ret.pre.native_context)
    /\ ( /\ Kind(ret.pre) = "Owned"
         /\ \/ ret.op \in {"make_context_current", "context_descriptor"}
            \/ /\ ret.op = "unbind_surface_from_context"
               /\ ret.pre.framebuffer.tag = "Surface" )
       => ~is_destroyed(ret.pre.native_context)
====
